---- MODULE Spec2Model ----
(***************************************************************************)
(* A model of bluesky-sweep.ts: the paginated scan that classifies every   *)
(* post of the account against TARGET_DOMAIN, and the batched, rate        *)
(* limited dispatch of the resulting delete intents.                       *)
(*                                                                         *)
(* Strings are sequences of one-character strings.  A JavaScript value     *)
(* that may be undefined is a sequence of length 0 (undefined) or 1 (the   *)
(* value).  Times are milliseconds since the start of the run.             *)
(***************************************************************************)
EXTENDS Integers, Sequences, FiniteSets, TLC

VARIABLES
    pc,                   \* where the async function stands
    now,                  \* Date.now()
    inFlight,             \* remote calls the limiter has started and that have not settled
    sleepFor,             \* the argument of the pending sleep(ms)
    repo,                 \* the account's posts the server has shown, oldest first
    DELETES_PER_BATCH,    \* configuration parameters, fixed for a run
    MAX_DELETES_PER_HOUR,
    SAFE_MARGIN,
    deletes,              \* let deletes
    cursor,               \* let cursor
    batchCount,           \* let batchCount
    chunkedDeletes,       \* const chunkedDeletes
    idx,                  \* the dispatch loop's idx
    hourWindowStart,      \* let hourWindowStart
    deletesThisHour,      \* let deletesThisHour
    success,              \* let success
    request,              \* the cursor argument of the listRecords call in flight
    prevNext,             \* history: the cursor of the last listRecords response
    seen,                 \* history: the records of all responses, in order
    fetches,              \* history: listRecords calls issued
    failed,               \* history: a listRecords call was rejected
    writeLog,             \* history: every applyWrites call and its outcome
    gov,                  \* history: the hourly limit checks and resets for the last unit
    retries,              \* 429 responses received so far in the run
    rateLimited,          \* history: the header and time of the 429 being waited out
    completed,            \* history: when each applyWrites call succeeded, and its size
    cArr, cSize, cOut,    \* chunked applied to an input
    mVal, mOut            \* the found computation applied to a record value

runVars == <<pc, now, inFlight, sleepFor, repo, DELETES_PER_BATCH,
             MAX_DELETES_PER_HOUR, SAFE_MARGIN, deletes, cursor, batchCount,
             chunkedDeletes, idx, hourWindowStart, deletesThisHour, success,
             request, prevNext, seen, fetches, failed, writeLog, gov,
             retries, rateLimited>>
chunkVars == <<cArr, cSize, cOut>>
matchVars == <<mVal, mOut>>
vars == <<runVars, chunkVars, matchVars, completed>>

----------------------------------------------------------------------------
(* Optional values and strings                                             *)

Undefined == <<>>
Some(x) == <<x>>
IsDefined(o) == Len(o) > 0
Get(o) == o[1]

\* JavaScript truthiness of a string | undefined: "" and undefined are falsy.
Truthy(o) == IsDefined(o) /\ Len(Get(o)) > 0

Min(a, b) == IF a < b THEN a ELSE b

\* String.prototype.includes
includes(s, t) ==
    \E i \in 0..(Len(s) - Len(t)) : SubSeq(s, i + 1, i + Len(t)) = t

\* String.prototype.lastIndexOf for a one-character needle: the 0-based index
\* of its last occurrence, -1 when there is none.
lastIndexOf(s, c) ==
    IF \E i \in 1..Len(s) : s[i] = c
    THEN (CHOOSE i \in 1..Len(s) :
             s[i] = c /\ \A j \in (i + 1)..Len(s) : s[j] # c) - 1
    ELSE -1

\* slice(start) and slice(start, end) with 0-based, end-exclusive indices,
\* for 0 <= start; an end beyond the length is clamped.
sliceFrom(s, start) == SubSeq(s, start + 1, Len(s))
slice(s, start, end) == SubSeq(s, start + 1, Min(end, Len(s)))

DigitChars == <<"0", "1", "2", "3", "4", "5", "6", "7", "8", "9">>
IsDigit(c) == \E d \in 1..10 : DigitChars[d] = c
DigitVal(c) == (CHOOSE d \in 1..10 : DigitChars[d] = c) - 1

\* The decimal rendering of a natural number.
RECURSIVE ToDigits(_)
ToDigits(n) ==
    IF n < 10 THEN <<DigitChars[n + 1]>>
    ELSE Append(ToDigits(n \div 10), DigitChars[(n % 10) + 1])

\* parseInt(s, 10) on an unsigned string: the value of the longest prefix of
\* digits, NaN (undefined here) when the string does not start with a digit.
RECURSIVE parseDigits(_, _)
parseDigits(s, acc) ==
    IF Len(s) > 0 /\ IsDigit(Head(s))
    THEN parseDigits(Tail(s), 10 * acc + DigitVal(Head(s)))
    ELSE acc

parseInt(s) ==
    IF Len(s) > 0 /\ IsDigit(Head(s)) THEN Some(parseDigits(s, 0)) ELSE Undefined

----------------------------------------------------------------------------
(* The constants of the script                                             *)

TARGET_DOMAIN == <<"f", "s">>
DELAY_BETWEEN_BATCHES_MS == 5000
oneHourMs == 3600000
defaultWaitSeconds == 60
concurrency == 3

LinkFeature == "app.bsky.richtext.facet#link"
MentionFeature == "app.bsky.richtext.facet#mention"
ExternalEmbed == "app.bsky.embed.external"
ImagesEmbed == "app.bsky.embed.images"

----------------------------------------------------------------------------
(* getRecordId and chunked                                                 *)

\* A mutant: the segment before the last '/', not the one after it.
getRecordIdBeforeSlash(uri) ==
    LET i == lastIndexOf(uri, "/") IN IF i < 0 THEN uri ELSE slice(uri, 0, i)

getRecordId(uri) ==
    LET i == lastIndexOf(uri, "/") IN sliceFrom(uri, i + 1)

RECURSIVE chunkLoop(_, _, _, _)
chunkLoop(arr, size, i, chunks) ==
    IF i < Len(arr)
    THEN chunkLoop(arr, size, i + size, Append(chunks, slice(arr, i, i + size)))
    ELSE chunks

\* A mutant: the loop runs only while a full unit remains (idx + size <=
\* arr.length), so a shorter last unit is dropped.
RECURSIVE chunkLoopFullOnly(_, _, _, _)
chunkLoopFullOnly(arr, size, i, chunks) ==
    IF i + size <= Len(arr)
    THEN chunkLoopFullOnly(arr, size, i + size, Append(chunks, slice(arr, i, i + size)))
    ELSE chunks

chunkedFullOnly(arr, size) == chunkLoopFullOnly(arr, size, 0, <<>>)

chunked(arr, size) == chunkLoop(arr, size, 0, <<>>)

----------------------------------------------------------------------------
(* The found computation of the scan loop, for one record value.  A value  *)
(* is undefined or a record [facets, embed, entities]; each field is        *)
(* undefined or present.  The result is "true", "false", or "TypeError"     *)
(* when the evaluation reads a property of undefined and throws.            *)

\* for (const feature of features): the first link feature decides when its
\* uri includes the domain; feature.uri.includes throws when uri is undefined.
RECURSIVE featuresFound(_, _)
featuresFound(features, i) ==
    IF i > Len(features) THEN "false"
    ELSE IF features[i].type = LinkFeature
         THEN IF ~IsDefined(features[i].uri) THEN "TypeError"
              ELSE IF includes(Get(features[i].uri), TARGET_DOMAIN) THEN "true"
              ELSE featuresFound(features, i + 1)
         ELSE featuresFound(features, i + 1)

\* for (const facet of facets): features = facet.features || []
RECURSIVE facetsLoop(_, _)
facetsLoop(facets, i) ==
    IF i > Len(facets) THEN "false"
    ELSE LET features == IF IsDefined(facets[i].features)
                         THEN Get(facets[i].features) ELSE <<>>
             r == featuresFound(features, 1)
         IN  IF r = "false" THEN facetsLoop(facets, i + 1) ELSE r

\* const facets = val?.facets || []
facetsFound(val) ==
    IF IsDefined(val) /\ IsDefined(Get(val).facets)
    THEN facetsLoop(Get(Get(val).facets), 1)
    ELSE "false"

\* val?.embed && embed.$type === external && embed.external?.uri?.includes(...)
embedFound(val) ==
    /\ IsDefined(val)
    /\ IsDefined(Get(val).embed)
    /\ LET embed == Get(Get(val).embed)
       IN  /\ embed.type = ExternalEmbed
           /\ IsDefined(embed.external)
           /\ IsDefined(Get(embed.external).uri)
           /\ includes(Get(Get(embed.external).uri), TARGET_DOMAIN)

\* for (const entity of val.entities): entity.value.includes throws when
\* value is undefined.
RECURSIVE entitiesLoop(_, _)
entitiesLoop(entities, i) ==
    IF i > Len(entities) THEN "false"
    ELSE IF entities[i].type = "link"
         THEN IF ~IsDefined(entities[i].value) THEN "TypeError"
              ELSE IF includes(Get(entities[i].value), TARGET_DOMAIN) THEN "true"
              ELSE entitiesLoop(entities, i + 1)
         ELSE entitiesLoop(entities, i + 1)

\* val?.entities && Array.isArray(val.entities)
entitiesFound(val) ==
    IF /\ IsDefined(val)
       /\ IsDefined(Get(val).entities)
       /\ Get(Get(val).entities).isArray
    THEN entitiesLoop(Get(Get(val).entities).elems, 1)
    ELSE "false"

\* let found = false; facets, then embed if not found, then entities if not
\* found.
found(val) ==
    LET f == facetsFound(val)
    IN  IF f # "false" THEN f
        ELSE IF embedFound(val) THEN "true"
        ELSE entitiesFound(val)

----------------------------------------------------------------------------
(* Bounds and input domains                                                *)

MaxRepo == 3        \* posts in the account
MaxPageLen == 2     \* records the server returns in one page
MaxPages == 2       \* listRecords calls before the server ends the cursor chain
MaxRetries == 2     \* 429 responses the server gives in one run
MaxTime == 3601000  \* calls are slow and timers late only up to this time

\* How long a remote call may take, and how late a timer may fire.
Latencies == {0, 3600000}
Overshoots == {0, 1}

\* The configurations (DELETES_PER_BATCH, MAX_DELETES_PER_HOUR, SAFE_MARGIN) of
\* a run: batches of one under a threshold of two, batches of two under a
\* threshold of three, and batches of two over a threshold of zero.
Configs ==
    { [batch |-> 1, max |-> 3, margin |-> 1],
      [batch |-> 2, max |-> 4, margin |-> 1],
      [batch |-> 2, max |-> 1, margin |-> 1] }

\* Configurations with a batch size that is not positive.
InvalidConfigs ==
    { [batch |-> 0, max |-> 3, margin |-> 1],
      [batch |-> -1, max |-> 3, margin |-> 1] }

NoEvidence == [facets |-> Undefined, embed |-> Undefined, entities |-> Undefined]
LinkFacet(uri) ==
    Some(<<[features |-> Some(<<[type |-> LinkFeature, uri |-> uri]>>)]>>)

\* The kinds of post of an account: a link facet to the domain, an external
\* embed of another domain, and a link facet that carries no uri.
PostValues ==
    { Some([NoEvidence EXCEPT !.facets = LinkFacet(Some(<<"x", "f", "s">>))]),
      Some([NoEvidence EXCEPT !.embed =
               Some([type |-> ExternalEmbed,
                     external |-> Some([uri |-> Some(<<"F", "s">>)])])]),
      Some([NoEvidence EXCEPT !.facets = LinkFacet(Undefined)]) }

\* The uri of the post at a position of the repository: unique, ending in
\* the position, with two slashes, none, or one by turns.
UriPrefixes == << <<"a", "/", "p", "/">>, <<"r">>, <<"p", "/">> >>
UriAt(i) == UriPrefixes[((i - 1) % 3) + 1] \o ToDigits(i)

PostAt(i, v) == [uri |-> UriAt(i), value |-> v]

\* The posts the server holds after the n it has shown so far: it may hold up
\* to m more, of any kinds.
MorePosts(n, m) ==
    UNION { { [i \in 1..k |-> PostAt(n + i, v[i])] : v \in [1..k -> PostValues] } :
            k \in 0..m }

\* The server's cursors: a token names the position the next page starts at.
Token(p) == Some(<<"c">> \o ToDigits(p))
TokenPos(c) == IF IsDefined(c) THEN Get(parseInt(Tail(Get(c)))) ELSE 0

\* The ratelimit-reset headers a 429 may carry at a time of nowSec epoch
\* seconds: none, an empty one, one that is no number, a time in the past,
\* the present second, and an hour ahead.
ResetHeaders(nowSec) ==
    { Undefined, Some(<<>>), Some(<<"s", "o", "o", "n">>), Some(ToDigits(0)),
      Some(ToDigits(nowSec)), Some(ToDigits(nowSec + 3600)) }

\* The statuses of a failed applyWrites; 0 stands for an error without status.
ErrorStatuses == {429, 400, 500, 0}

----------------------------------------------------------------------------
(* The run: the scan loop                                                  *)

Intent(uri) ==
    [type |-> "com.atproto.repo.applyWrites#delete",
     collection |-> "app.bsky.feed.post",
     rkey |-> getRecordId(uri)]

\* for (const record of response.data.records): push an intent for every
\* record that is found; a TypeError leaves the loop with what was pushed.
RECURSIVE scanRecords(_, _, _)
scanRecords(records, i, acc) ==
    IF i > Len(records) THEN [deletes |-> acc, threw |-> FALSE]
    ELSE LET r == found(records[i].value)
         IN  IF r = "TypeError" THEN [deletes |-> acc, threw |-> TRUE]
             ELSE scanRecords(records, i + 1,
                      IF r = "true" THEN Append(acc, Intent(records[i].uri)) ELSE acc)

Elapse(d) == now' = now + d

\* A remote call settles after a latency.
Settle == \E lat \in Latencies : (lat = 0 \/ now + lat <= MaxTime) /\ Elapse(lat)

\* await sleep(sleepFor) resumes no earlier than the timer.
Wake ==
    \E over \in Overshoots :
       (over = 0 \/ now + sleepFor + over <= MaxTime) /\ Elapse(sleepFor + over)

SetLast(log, entry) == [log EXCEPT ![Len(log)] = entry]

\* limit(fn): the limiter starts fn when fewer than concurrency calls are
\* active.
LimitStart ==
    /\ inFlight < concurrency
    /\ inFlight' = inFlight + 1

\* limit(() => listRecords({..., cursor, reverse: true}))
IssueFetch ==
    /\ UNCHANGED rateLimited
    /\ UNCHANGED failed
    /\ pc = "fetch"
    /\ pc' = "fetching"
    /\ LimitStart
    /\ request' = Some(cursor)
    /\ fetches' = fetches + 1
    /\ UNCHANGED <<now, sleepFor, repo, DELETES_PER_BATCH, MAX_DELETES_PER_HOUR,
                   SAFE_MARGIN, deletes, cursor, batchCount, chunkedDeletes, idx,
                   hourWindowStart, deletesThisHour, success, prevNext, seen,
                   writeLog, gov, retries>>

\* The response: cursor = response.data.cursor; batchCount++; the records
\* loop, which a TypeError leaves by rejecting the async function; then
\* while (cursor).
FetchHandle(records, next) ==
    LET r == scanRecords(records, 1, deletes)
    IN  /\ cursor' = next
        /\ batchCount' = batchCount + 1
        /\ deletes' = r.deletes
        /\ pc' = IF r.threw THEN "typeError"
                 ELSE IF Truthy(next) THEN "fetch" ELSE "scanned"

\* The server answers with at most MaxPageLen of the account's posts after
\* the cursor's position (the account holds at most MaxRepo) and a next
\* cursor of its choice; the chain of cursors ends by the MaxPages-th call.
FetchOk ==
    /\ UNCHANGED rateLimited
    /\ UNCHANGED failed
    /\ pc = "fetching"
    /\ Settle
    /\ inFlight' = inFlight - 1
    /\ request' = Undefined
    /\ LET pos == TokenPos(Get(request))
           old == SubSeq(repo, pos + 1, Min(Len(repo), pos + MaxPageLen))
       IN  \E more \in MorePosts(Len(repo),
                         IF pos + Len(old) = Len(repo)
                         THEN Min(MaxPageLen - Len(old), MaxRepo - Len(repo)) ELSE 0) :
           \E k \in (IF more = <<>> THEN 0..Len(old) ELSE {Len(old) + Len(more)}) :
           \E next \in {Token(pos + k), Undefined, Some(<<>>)} :
              /\ fetches >= MaxPages => ~Truthy(next)
              /\ repo' = repo \o more
              /\ FetchHandle(SubSeq(repo', pos + 1, pos + k), next)
              /\ prevNext' = next
              /\ seen' = seen \o SubSeq(repo', pos + 1, pos + k)
    /\ UNCHANGED <<sleepFor, DELETES_PER_BATCH, MAX_DELETES_PER_HOUR,
                   SAFE_MARGIN, chunkedDeletes, idx, hourWindowStart,
                   deletesThisHour, success, fetches, writeLog, gov, retries>>

\* A mutant: a rejected listRecords is caught and the scan ends with what it
\* has collected.
FetchFailSwallowed ==
    /\ UNCHANGED rateLimited
    /\ pc = "fetching"
    /\ Settle
    /\ inFlight' = inFlight - 1
    /\ request' = Undefined
    /\ failed' = TRUE
    /\ pc' = "scanned"
    /\ UNCHANGED <<sleepFor, repo, DELETES_PER_BATCH, MAX_DELETES_PER_HOUR,
                   SAFE_MARGIN, deletes, cursor, batchCount, chunkedDeletes, idx,
                   hourWindowStart, deletesThisHour, success, prevNext, seen,
                   fetches, writeLog, gov, retries>>

\* listRecords rejects: the await throws out of the async function.
FetchFail ==
    /\ UNCHANGED rateLimited
    /\ pc = "fetching"
    /\ Settle
    /\ inFlight' = inFlight - 1
    /\ request' = Undefined
    /\ failed' = TRUE
    /\ pc' = "fetchFailed"
    /\ UNCHANGED <<sleepFor, repo, DELETES_PER_BATCH, MAX_DELETES_PER_HOUR,
                   SAFE_MARGIN, deletes, cursor, batchCount, chunkedDeletes, idx,
                   hourWindowStart, deletesThisHour, success, prevNext, seen,
                   fetches, writeLog, gov, retries>>

\* A mutant: no early return when nothing was found.
AfterScanNoReturn ==
    /\ UNCHANGED rateLimited
    /\ UNCHANGED failed
    /\ pc = "scanned"
    /\ chunkedDeletes' = chunked(deletes, DELETES_PER_BATCH)
    /\ hourWindowStart' = now
    /\ deletesThisHour' = 0
    /\ idx' = 0
    /\ pc' = "loop"
    /\ UNCHANGED <<now, inFlight, sleepFor, repo, DELETES_PER_BATCH,
                   MAX_DELETES_PER_HOUR, SAFE_MARGIN, deletes, cursor, batchCount,
                   success, request, prevNext, seen, fetches, writeLog, gov, retries>>

\* After the scan: return when nothing was found, else partition and open
\* the hour window.  With a size that is not positive the loop of chunked
\* (idx < arr.length; idx += size) never ends: idx does not grow, and the
\* function pushes empty slices until the process runs out of memory.
AfterScan ==
    /\ UNCHANGED rateLimited
    /\ UNCHANGED failed
    /\ pc = "scanned"
    /\ IF Len(deletes) = 0
       THEN /\ pc' = "done"
            /\ UNCHANGED <<chunkedDeletes, hourWindowStart, deletesThisHour, idx>>
       ELSE IF DELETES_PER_BATCH <= 0
       THEN /\ pc' = "chunking"
            /\ UNCHANGED <<chunkedDeletes, hourWindowStart, deletesThisHour, idx>>
       ELSE /\ chunkedDeletes' = chunked(deletes, DELETES_PER_BATCH)
            /\ hourWindowStart' = now
            /\ deletesThisHour' = 0
            /\ idx' = 0
            /\ pc' = "loop"
    /\ UNCHANGED <<now, inFlight, sleepFor, repo, DELETES_PER_BATCH,
                   MAX_DELETES_PER_HOUR, SAFE_MARGIN, deletes, cursor, batchCount,
                   success, request, prevNext, seen, fetches,
                   writeLog, gov, retries>>

----------------------------------------------------------------------------
(* The run: the dispatch loop                                              *)

\* A mutant: the check forgets the size of the chunk about to be sent.
overHourlyLimitIgnoresChunk(used, n) == used > (MAX_DELETES_PER_HOUR - SAFE_MARGIN)

\* deletesThisHour + chunk.length > (MAX_DELETES_PER_HOUR - SAFE_MARGIN)
overHourlyLimit(used, n) == used + n > (MAX_DELETES_PER_HOUR - SAFE_MARGIN)

\* The checks made and the resets done so far for a unit.
ChecksOf(unit) == IF gov.unit = unit THEN gov.checks ELSE 0
ResetsOf(unit) == IF gov.unit = unit THEN gov.resets ELSE 0

\* The loop head for one chunk: leave the loop after the last chunk; else the
\* hourly limit check, which sleeps until the hour has passed or resets the
\* window at once; then success = false before the retry loop.
LoopHead ==
    /\ UNCHANGED rateLimited
    /\ UNCHANGED failed
    /\ pc = "loop"
    /\ IF idx >= Len(chunkedDeletes)
       THEN /\ pc' = "done"
            /\ UNCHANGED <<sleepFor, hourWindowStart, deletesThisHour, success, gov>>
       ELSE LET chunk == chunkedDeletes[idx + 1]
                elapsed == now - hourWindowStart
            IN  IF overHourlyLimit(deletesThisHour, Len(chunk))
                THEN /\ gov' = [unit |-> idx, triggered |-> TRUE,
                                prevStart |-> hourWindowStart,
                                slept |-> elapsed < oneHourMs,
                                checks |-> ChecksOf(idx) + 1,
                                resets |-> ResetsOf(idx) +
                                           (IF elapsed < oneHourMs THEN 0 ELSE 1)]
                     /\ IF elapsed < oneHourMs
                        THEN /\ sleepFor' = oneHourMs - elapsed
                             /\ pc' = "quotaWait"
                             /\ UNCHANGED <<hourWindowStart, deletesThisHour, success>>
                        ELSE /\ hourWindowStart' = now
                             /\ deletesThisHour' = 0
                             /\ success' = FALSE
                             /\ pc' = "write"
                             /\ UNCHANGED sleepFor
                ELSE /\ gov' = [unit |-> idx, triggered |-> FALSE,
                                prevStart |-> hourWindowStart, slept |-> FALSE,
                                checks |-> ChecksOf(idx) + 1,
                                resets |-> ResetsOf(idx)]
                     /\ success' = FALSE
                     /\ pc' = "write"
                     /\ UNCHANGED <<sleepFor, hourWindowStart, deletesThisHour>>
    /\ UNCHANGED <<now, inFlight, repo, DELETES_PER_BATCH, MAX_DELETES_PER_HOUR,
                   SAFE_MARGIN, deletes, cursor, batchCount, chunkedDeletes, idx,
                   request, prevNext, seen, fetches, writeLog, retries>>

\* A mutant: after the sleep and the reset the check is made again (a while
\* in place of the if).
QuotaWakeRechecks ==
    /\ UNCHANGED <<failed, rateLimited>>
    /\ pc = "quotaWait"
    /\ Wake
    /\ hourWindowStart' = now'
    /\ deletesThisHour' = 0
    /\ gov' = [gov EXCEPT !.resets = @ + 1]
    /\ sleepFor' = 0
    /\ pc' = "loop"
    /\ UNCHANGED <<inFlight, repo, DELETES_PER_BATCH, MAX_DELETES_PER_HOUR,
                   SAFE_MARGIN, deletes, cursor, batchCount, chunkedDeletes, idx,
                   success, request, prevNext, seen, fetches, writeLog, retries>>

\* A mutant: after the sleep the window is left as it was.
QuotaWakeNoReset ==
    /\ UNCHANGED <<failed, rateLimited>>
    /\ pc = "quotaWait"
    /\ Wake
    /\ success' = FALSE
    /\ sleepFor' = 0
    /\ pc' = "write"
    /\ UNCHANGED <<inFlight, repo, DELETES_PER_BATCH, MAX_DELETES_PER_HOUR,
                   SAFE_MARGIN, deletes, cursor, batchCount, chunkedDeletes, idx,
                   hourWindowStart, deletesThisHour, request, prevNext, seen,
                   fetches, writeLog, gov, retries>>

\* await sleep(waitTime) returns: reset the hour window.
QuotaWake ==
    /\ UNCHANGED rateLimited
    /\ UNCHANGED failed
    /\ pc = "quotaWait"
    /\ Wake
    /\ hourWindowStart' = now'
    /\ deletesThisHour' = 0
    /\ gov' = [gov EXCEPT !.resets = @ + 1]
    /\ success' = FALSE
    /\ sleepFor' = 0
    /\ pc' = "write"
    /\ UNCHANGED <<inFlight, repo, DELETES_PER_BATCH, MAX_DELETES_PER_HOUR,
                   SAFE_MARGIN, deletes, cursor, batchCount, chunkedDeletes, idx,
                   request, prevNext, seen, fetches, writeLog, retries>>

\* A mutant: the call sends the whole list of deletes, not the chunk.
IssueWriteAllDeletes ==
    /\ rateLimited' = Undefined
    /\ UNCHANGED failed
    /\ pc = "write"
    /\ ~success
    /\ pc' = "writing"
    /\ LimitStart
    /\ writeLog' = Append(writeLog,
           [unit |-> idx, writes |-> deletes, result |-> "pending",
            status |-> 0, usedBefore |-> deletesThisHour, usedAfter |-> deletesThisHour,
            fetched |-> fetches])
    /\ UNCHANGED <<now, sleepFor, repo, DELETES_PER_BATCH, MAX_DELETES_PER_HOUR,
                   SAFE_MARGIN, deletes, cursor, batchCount, chunkedDeletes, idx,
                   hourWindowStart, deletesThisHour, success, request, prevNext,
                   seen, fetches, gov, retries>>

\* A mutant: the call is not awaited; the run goes on as if it had resolved.
IssueWriteNoAwait ==
    /\ rateLimited' = Undefined
    /\ UNCHANGED failed
    /\ pc = "write"
    /\ ~success
    /\ LimitStart
    /\ success' = TRUE
    /\ deletesThisHour' = deletesThisHour + Len(chunkedDeletes[idx + 1])
    /\ sleepFor' = DELAY_BETWEEN_BATCHES_MS
    /\ pc' = "delay"
    /\ writeLog' = Append(writeLog,
           [unit |-> idx, writes |-> chunkedDeletes[idx + 1], result |-> "pending",
            status |-> 0, usedBefore |-> deletesThisHour, usedAfter |-> deletesThisHour,
            fetched |-> fetches])
    /\ UNCHANGED <<now, repo, DELETES_PER_BATCH, MAX_DELETES_PER_HOUR,
                   SAFE_MARGIN, deletes, cursor, batchCount, chunkedDeletes, idx,
                   hourWindowStart, request, prevNext, seen, fetches, gov, retries>>

\* while (!success): limit(() => applyWrites({..., writes: chunk}))
IssueWrite ==
    /\ rateLimited' = Undefined
    /\ UNCHANGED failed
    /\ pc = "write"
    /\ ~success
    /\ pc' = "writing"
    /\ LimitStart
    /\ writeLog' = Append(writeLog,
           [unit |-> idx, writes |-> chunkedDeletes[idx + 1], result |-> "pending",
            status |-> 0, usedBefore |-> deletesThisHour, usedAfter |-> deletesThisHour,
            fetched |-> fetches])
    /\ UNCHANGED <<now, sleepFor, repo, DELETES_PER_BATCH, MAX_DELETES_PER_HOUR,
                   SAFE_MARGIN, deletes, cursor, batchCount, chunkedDeletes, idx,
                   hourWindowStart, deletesThisHour, success, request, prevNext, seen, fetches, gov, retries>>

\* The call resolves: success = true leaves the retry loop; the counter is
\* incremented and the delay between batches starts.
WriteOk ==
    /\ UNCHANGED rateLimited
    /\ UNCHANGED failed
    /\ pc = "writing"
    /\ Settle
    /\ inFlight' = inFlight - 1
    /\ success' = TRUE
    /\ deletesThisHour' = deletesThisHour + Len(chunkedDeletes[idx + 1])
    /\ sleepFor' = DELAY_BETWEEN_BATCHES_MS
    /\ pc' = "delay"
    /\ writeLog' = SetLast(writeLog,
           [writeLog[Len(writeLog)] EXCEPT !.result = "ok", !.usedAfter = deletesThisHour'])
    /\ UNCHANGED <<repo, DELETES_PER_BATCH, MAX_DELETES_PER_HOUR, SAFE_MARGIN,
                   deletes, cursor, batchCount, chunkedDeletes, idx,
                   hourWindowStart, request, prevNext, seen, fetches, gov, retries>>

\* A mutant: the difference is used whatever its sign.
waitSecondsAnyDiff(resetTimeStr, nowMs) ==
    IF Truthy(resetTimeStr)
    THEN LET resetTime == parseInt(Get(resetTimeStr))
         IN  IF IsDefined(resetTime)
             THEN Get(resetTime) - (nowMs \div 1000)
             ELSE defaultWaitSeconds
    ELSE defaultWaitSeconds

\* let waitSeconds = 60; if (resetTimeStr) {resetTime = parseInt(...);
\* diff = resetTime - floor(Date.now() / 1000); if (diff > 0) waitSeconds = diff}
waitSeconds(resetTimeStr, nowMs) ==
    IF Truthy(resetTimeStr)
    THEN LET resetTime == parseInt(Get(resetTimeStr))
         IN  IF IsDefined(resetTime) /\ Get(resetTime) - (nowMs \div 1000) > 0
             THEN Get(resetTime) - (nowMs \div 1000)
             ELSE defaultWaitSeconds
    ELSE defaultWaitSeconds

\* A mutant: every error is handled as a rate limit and retried.
CatchRetriesAll(status, resetTimeStr) ==
    /\ sleepFor' = waitSeconds(resetTimeStr, now') * 1000
    /\ pc' = "backoff"

\* A mutant: every error, a 429 too, breaks out of the dispatch loop.
CatchAbortsAll(status, resetTimeStr) ==
    /\ pc' = "done"
    /\ UNCHANGED sleepFor

\* catch (error): a 429 sleeps and retries the same chunk; any other error
\* breaks out of the retry loop and, success being false, out of the
\* dispatch loop.
Catch(status, resetTimeStr) ==
    IF status = 429
    THEN /\ sleepFor' = waitSeconds(resetTimeStr, now') * 1000
         /\ pc' = "backoff"
    ELSE /\ pc' = "done"
         /\ UNCHANGED sleepFor

\* The call rejects with a status and, for a 429, a ratelimit-reset header.
WriteRejected ==
    /\ UNCHANGED failed
    /\ pc = "writing"
    /\ Settle
    /\ inFlight' = inFlight - 1
    /\ \E status \in ErrorStatuses :
       \E header \in (IF status = 429 THEN ResetHeaders(now' \div 1000) ELSE {Undefined}) :
          /\ status = 429 => retries < MaxRetries
          /\ Catch(status, header)
          /\ retries' = IF status = 429 THEN retries + 1 ELSE retries
          /\ rateLimited' = IF status = 429
                            THEN Some([header |-> header, at |-> now'])
                            ELSE Undefined
          /\ writeLog' = SetLast(writeLog,
                 [writeLog[Len(writeLog)] EXCEPT !.result = "rejected", !.status = status])
    /\ UNCHANGED <<repo, DELETES_PER_BATCH, MAX_DELETES_PER_HOUR, SAFE_MARGIN,
                   deletes, cursor, batchCount, chunkedDeletes, idx,
                   hourWindowStart, deletesThisHour, success, request, prevNext, seen,
                   fetches, gov>>

\* A mutant: the retry starts over at the hourly limit check.
BackoffWakeRechecks ==
    /\ UNCHANGED <<failed, rateLimited>>
    /\ pc = "backoff"
    /\ Wake
    /\ sleepFor' = 0
    /\ pc' = "loop"
    /\ UNCHANGED <<inFlight, repo, DELETES_PER_BATCH, MAX_DELETES_PER_HOUR,
                   SAFE_MARGIN, deletes, cursor, batchCount, chunkedDeletes, idx,
                   hourWindowStart, deletesThisHour, success, request, prevNext,
                   seen, fetches, writeLog, gov, retries>>

\* await sleep(waitSeconds * 1000) returns: retry this batch.
BackoffWake ==
    /\ UNCHANGED rateLimited
    /\ UNCHANGED failed
    /\ pc = "backoff"
    /\ Wake
    /\ sleepFor' = 0
    /\ pc' = "write"
    /\ UNCHANGED <<inFlight, repo, DELETES_PER_BATCH, MAX_DELETES_PER_HOUR,
                   SAFE_MARGIN, deletes, cursor, batchCount, chunkedDeletes, idx,
                   hourWindowStart, deletesThisHour, success, request, prevNext, seen,
                   fetches, writeLog,
                   gov, retries>>

\* A mutant: the loop does not advance to the next chunk.
DelayWakeSameChunk ==
    /\ UNCHANGED rateLimited
    /\ UNCHANGED failed
    /\ pc = "delay"
    /\ Wake
    /\ sleepFor' = 0
    /\ pc' = "loop"
    /\ UNCHANGED <<inFlight, repo, DELETES_PER_BATCH, MAX_DELETES_PER_HOUR,
                   SAFE_MARGIN, deletes, cursor, batchCount, chunkedDeletes, idx,
                   hourWindowStart, deletesThisHour, success, request, prevNext,
                   seen, fetches, writeLog, gov, retries>>

\* await sleep(DELAY_BETWEEN_BATCHES_MS) returns: idx++.
DelayWake ==
    /\ UNCHANGED rateLimited
    /\ UNCHANGED failed
    /\ pc = "delay"
    /\ Wake
    /\ sleepFor' = 0
    /\ idx' = idx + 1
    /\ pc' = "loop"
    /\ UNCHANGED <<inFlight, repo, DELETES_PER_BATCH, MAX_DELETES_PER_HOUR,
                   SAFE_MARGIN, deletes, cursor, batchCount, chunkedDeletes,
                   hourWindowStart, deletesThisHour, success, request, prevNext, seen,
                   fetches, writeLog,
                   gov, retries>>

----------------------------------------------------------------------------
(* Specifications                                                          *)

ChunkIdle == cArr = <<>> /\ cSize = 1 /\ cOut = Undefined
MatchIdle == mVal = Undefined /\ mOut = "pending"

InitRun(configs) ==
    /\ pc = "fetch"
    /\ now = 0
    /\ inFlight = 0
    /\ sleepFor = 0
    /\ repo = <<>>
    /\ \E c \in configs :
          /\ DELETES_PER_BATCH = c.batch
          /\ MAX_DELETES_PER_HOUR = c.max
          /\ SAFE_MARGIN = c.margin
    /\ deletes = <<>>
    /\ cursor = Undefined
    /\ batchCount = 0
    /\ chunkedDeletes = <<>>
    /\ idx = 0
    /\ hourWindowStart = 0
    /\ deletesThisHour = 0
    /\ success = FALSE
    /\ request = Undefined
    /\ prevNext = Undefined
    /\ seen = <<>>
    /\ fetches = 0
    /\ failed = FALSE
    /\ writeLog = <<>>
    /\ gov = [unit |-> -1, triggered |-> FALSE, prevStart |-> 0, slept |-> FALSE,
              checks |-> 0, resets |-> 0]
    /\ retries = 0
    /\ rateLimited = Undefined
    /\ completed = <<>>
    /\ ChunkIdle
    /\ MatchIdle

Init == InitRun(Configs)

Next ==
    /\ \/ IssueFetch
       \/ FetchOk
       \/ FetchFail
       \/ AfterScan
       \/ LoopHead
       \/ QuotaWake
       \/ IssueWrite
       \/ WriteOk
       \/ WriteRejected
       \/ BackoffWake
       \/ DelayWake
    /\ UNCHANGED <<chunkVars, matchVars, completed>>

Spec == Init /\ [][Next]_vars

\* The run when every remote call settles and every timer fires: the event
\* loop then resumes the async function.
FairSpec == Spec /\ WF_vars(Next)

\* The run with the time and size of every successful applyWrites call
\* recorded.
NextTimed ==
    /\ \/ IssueFetch
       \/ FetchOk
       \/ FetchFail
       \/ AfterScan
       \/ LoopHead
       \/ QuotaWake
       \/ IssueWrite
       \/ WriteOk
       \/ WriteRejected
       \/ BackoffWake
       \/ DelayWake
    /\ completed' = IF pc = "writing" /\ success'
                    THEN Append(completed, [at |-> now', n |-> Len(chunkedDeletes[idx + 1])])
                    ELSE completed
    /\ UNCHANGED <<chunkVars, matchVars>>

SpecTimed == Init /\ [][NextTimed]_vars

\* The run under every configuration, those with a batch size that is not
\* positive included.
InitConfig == InitRun(Configs \cup InvalidConfigs)
SpecConfig == InitConfig /\ [][Next]_vars
FairSpecConfig == SpecConfig /\ WF_vars(Next)

\* No run: the state of the run's variables while a function is applied alone.
RunIdle ==
    /\ pc = "idle"
    /\ now = 0
    /\ inFlight = 0
    /\ sleepFor = 0
    /\ repo = <<>>
    /\ DELETES_PER_BATCH = 1
    /\ MAX_DELETES_PER_HOUR = 1
    /\ SAFE_MARGIN = 0
    /\ deletes = <<>>
    /\ cursor = Undefined
    /\ batchCount = 0
    /\ chunkedDeletes = <<>>
    /\ idx = 0
    /\ hourWindowStart = 0
    /\ deletesThisHour = 0
    /\ success = FALSE
    /\ request = Undefined
    /\ prevNext = Undefined
    /\ seen = <<>>
    /\ fetches = 0
    /\ failed = FALSE
    /\ writeLog = <<>>
    /\ gov = [unit |-> -1, triggered |-> FALSE, prevStart |-> 0, slept |-> FALSE,
              checks |-> 0, resets |-> 0]
    /\ retries = 0
    /\ rateLimited = Undefined
    /\ completed = <<>>

(* chunked applied to every array of at most MaxArr elements and every     *)
(* size from 1 to MaxSize.                                                 *)

MaxArr == 5
MaxSize == 4
Elements == {"a", "b"}

InitChunk ==
    /\ RunIdle
    /\ MatchIdle
    /\ cArr \in UNION { [1..n -> Elements] : n \in 0..MaxArr }
    /\ cSize \in 1..MaxSize
    /\ cOut = Undefined

ApplyChunked ==
    /\ ~IsDefined(cOut)
    /\ cOut' = Some(chunked(cArr, cSize))
    /\ UNCHANGED <<cArr, cSize, runVars, matchVars, completed>>

SpecChunk == InitChunk /\ [][ApplyChunked]_vars

(* The found computation applied to every record value built from the      *)
(* parts below.                                                            *)

MatchStrings == { <<"x", "f", "s">>, <<"F", "s">>, <<"f", "x", "s">> }
OptStrings == {Undefined} \cup { Some(t) : t \in MatchStrings }

Features == [type : {LinkFeature, MentionFeature}, uri : OptStrings]
FeatureLists ==
    {Undefined, Some(<<>>)} \cup { Some(<<f>>) : f \in Features }
        \cup { Some(<<f, g>>) : f, g \in [type : {LinkFeature}, uri : OptStrings] }
FacetLists ==
    {Undefined, Some(<<>>)} \cup { Some(<<[features |-> fl]>>) : fl \in FeatureLists }
        \cup { Some(<<[features |-> Some(<<f>>)], [features |-> Some(<<g>>)]>>) :
                 f, g \in [type : {LinkFeature}, uri : {Undefined, Some(<<"x", "f", "s">>)}] }

Embeds ==
    {Undefined} \cup
    { Some([type |-> t, external |-> e]) :
        t \in {ExternalEmbed, ImagesEmbed},
        e \in {Undefined} \cup { Some([uri |-> u]) : u \in OptStrings } }

Entities == [type : {"link", "mention"}, value : OptStrings]
EntityLists ==
    {Undefined} \cup
    { Some([isArray |-> a, elems |-> el]) :
        a \in BOOLEAN,
        el \in {<<>>} \cup { <<e>> : e \in Entities }
                 \cup { <<e, [type |-> "link", value |-> Some(<<"x", "f", "s">>)]>> :
                          e \in Entities } }

MatchValues ==
    {Undefined} \cup
    { Some([facets |-> f, embed |-> e, entities |-> n]) :
        f \in FacetLists, e \in Embeds, n \in EntityLists }

InitMatch ==
    /\ RunIdle
    /\ ChunkIdle
    /\ mVal \in MatchValues
    /\ mOut = "pending"

ApplyFound ==
    /\ mOut = "pending"
    /\ mOut' = found(mVal)
    /\ UNCHANGED <<mVal, runVars, chunkVars, completed>>

SpecMatch == InitMatch /\ [][ApplyFound]_vars

----------------------------------------------------------------------------
(* Properties                                                              *)

Range(f) == { f[i] : i \in DOMAIN f }

RECURSIVE Concat(_)
Concat(seqs) == IF seqs = <<>> THEN <<>> ELSE Head(seqs) \o Concat(Tail(seqs))

RECURSIVE SumLen(_)
SumLen(seqs) == IF seqs = <<>> THEN 0 ELSE Len(Head(seqs)) + SumLen(Tail(seqs))

\* C7: for an intent list of length L and a batch size B > 0, chunked returns
\* ceil(L/B) units (none when L = 0); every unit is non-empty and holds at most
\* B intents; only the last unit may hold fewer than B; the sizes sum to L;
\* the units concatenated in order are the input list.
C7_Partitioning ==
    IsDefined(cOut) =>
        LET units == Get(cOut)
            L == Len(cArr)
            B == cSize
        IN  /\ Len(units) = (L + B - 1) \div B
            /\ \A i \in 1..Len(units) : Len(units[i]) >= 1 /\ Len(units[i]) <= B
            /\ \A i \in 1..(Len(units) - 1) : Len(units[i]) = B
            /\ SumLen(units) = L
            /\ Concat(units) = cArr

\* chunked has returned several units, the last one shorter than the batch
\* size, from a list that holds both elements.
C7_Witness ==
    /\ IsDefined(cOut)
    /\ Len(Get(cOut)) >= 2
    /\ Len(Get(cOut)[Len(Get(cOut))]) < cSize
    /\ Range(cArr) = Elements

\* The three sources of evidence of the domain in a record value, each read
\* on its own: a link feature of some facet, the external embed, a legacy
\* link entity.
FacetEvidence(val) ==
    /\ IsDefined(val)
    /\ IsDefined(Get(val).facets)
    /\ \E facet \in Range(Get(Get(val).facets)) :
          /\ IsDefined(facet.features)
          /\ \E feature \in Range(Get(facet.features)) :
                /\ feature.type = LinkFeature
                /\ IsDefined(feature.uri)
                /\ includes(Get(feature.uri), TARGET_DOMAIN)

EmbedEvidence(val) ==
    /\ IsDefined(val)
    /\ IsDefined(Get(val).embed)
    /\ Get(Get(val).embed).type = ExternalEmbed
    /\ IsDefined(Get(Get(val).embed).external)
    /\ IsDefined(Get(Get(Get(val).embed).external).uri)
    /\ includes(Get(Get(Get(Get(val).embed).external).uri), TARGET_DOMAIN)

EntityEvidence(val) ==
    /\ IsDefined(val)
    /\ IsDefined(Get(val).entities)
    /\ Get(Get(val).entities).isArray
    /\ \E entity \in Range(Get(Get(val).entities).elems) :
          /\ entity.type = "link"
          /\ IsDefined(entity.value)
          /\ includes(Get(entity.value), TARGET_DOMAIN)

Evidence(val) == FacetEvidence(val) \/ EmbedEvidence(val) \/ EntityEvidence(val)

\* C9: every record value is classified as a match if and only if a link
\* feature of a facet, the external embed, or a legacy link entity contains
\* the target domain; the result is the OR of the three checks.
C9_MatchIffEvidence ==
    mOut # "pending" => ((mOut = "true") <=> Evidence(mVal))

\* Whenever the found computation returns, its result is the OR of the three
\* checks.
FoundIsOrWhenReturned ==
    mOut \in {"true", "false"} => ((mOut = "true") <=> Evidence(mVal))

\* C11: classifying a record value never raises an error, whichever fields
\* are absent: a link feature without uri, an external embed without external
\* or uri, a link entity without value; the computation returns true or false.
C11_MatcherTotality == mOut \in {"pending", "true", "false"}

----------------------------------------------------------------------------
(* Properties of the run                                                   *)

Threshold == MAX_DELETES_PER_HOUR - SAFE_MARGIN

Calls == 1..Len(writeLog)
Is429(i) == writeLog[i].result = "rejected" /\ writeLog[i].status = 429
IsAbort(i) == writeLog[i].result = "rejected" /\ writeLog[i].status # 429
IsOk(i) == writeLog[i].result = "ok"
CallsOf(u) == { i \in Calls : writeLog[i].unit = u }
Succeeded(u) == \E i \in CallsOf(u) : IsOk(i)

\* The scan loop has been left by while (cursor).
ScanCompleted ==
    pc \in {"scanned", "chunking", "loop", "quotaWait", "write", "writing", "backoff", "delay", "done"}

\* C1: when the applyWrites call for a unit fails with a status other than
\* 429, that call is the last one of the run (the unit is not retried, later
\* units are never attempted, the run has ended), every earlier unit is
\* Succeeded, and deletesThisHour is what it was before the call.
C1_FailFast ==
    \A i \in Calls :
        IsAbort(i) =>
            /\ i = Len(writeLog)
            /\ pc = "done"
            /\ inFlight = 0
            /\ \A u \in 0..(writeLog[i].unit - 1) : Succeeded(u)
            /\ ~Succeeded(writeLog[i].unit)
            /\ deletesThisHour = writeLog[i].usedBefore

\* The second of three units was rejected with a status other than 429.
C1_Witness ==
    /\ Len(chunkedDeletes) = 3
    /\ \E i \in Calls : IsAbort(i) /\ writeLog[i].unit = 1

\* C2: a 429 leaves deletesThisHour unchanged and is followed by a call for
\* the same unit with the same intent list (the run is neither aborted nor
\* the unit skipped); a unit's successful call comes after k calls answered
\* 429, is its (k+1)-th and last call, and adds the unit's size to
\* deletesThisHour, which changes at no other call.
C2_RateLimitRetry ==
    /\ \A i \in Calls :
          Is429(i) =>
             /\ writeLog[i].usedAfter = writeLog[i].usedBefore
             /\ IF i < Len(writeLog)
                THEN /\ writeLog[i + 1].unit = writeLog[i].unit
                     /\ writeLog[i + 1].writes = writeLog[i].writes
                     /\ writeLog[i + 1].usedBefore = writeLog[i].usedBefore
                ELSE /\ pc \in {"backoff", "write"}
                     /\ idx = writeLog[i].unit
                     /\ ~success
                     /\ deletesThisHour = writeLog[i].usedBefore
    /\ \A i \in Calls :
          IsOk(i) =>
             LET mine == CallsOf(writeLog[i].unit)
             IN  /\ \A j \in mine : j <= i /\ (j < i => Is429(j))
                 /\ Cardinality(mine) = Cardinality({ j \in mine : Is429(j) }) + 1
                 /\ writeLog[i].usedAfter = writeLog[i].usedBefore + Len(writeLog[i].writes)
                 /\ IF i < Len(writeLog)
                    THEN writeLog[i + 1].usedBefore \in {writeLog[i].usedAfter, 0}
                    ELSE deletesThisHour \in {writeLog[i].usedAfter, 0}

\* A unit of two intents succeeded at its third call, after two 429s.
C2_Witness ==
    \E i \in Calls :
        /\ i + 2 \in Calls
        /\ Is429(i) /\ Is429(i + 1) /\ IsOk(i + 2)
        /\ writeLog[i + 2].unit = writeLog[i].unit
        /\ Len(writeLog[i].writes) = 2

\* The first applyWrites call of the current unit is about to be issued.
FirstAttempt == pc = "write" /\ CallsOf(idx) = {}

\* C3: when the first call for a unit of n intents is issued, either
\* deletesThisHour + n <= MAX_DELETES_PER_HOUR - SAFE_MARGIN, or the check for
\* this unit has reset deletesThisHour to 0 and hourWindowStart to now, at
\* least one hour after the previous hourWindowStart; and when
\* DELETES_PER_BATCH <= MAX_DELETES_PER_HOUR - SAFE_MARGIN, deletesThisHour
\* never exceeds MAX_DELETES_PER_HOUR - SAFE_MARGIN.
C3_QuotaGovernor ==
    /\ FirstAttempt =>
          \/ deletesThisHour + Len(chunkedDeletes[idx + 1]) <= Threshold
          \/ /\ gov.unit = idx
             /\ gov.triggered
             /\ deletesThisHour = 0
             /\ hourWindowStart = now
             /\ now - gov.prevStart >= oneHourMs
    /\ DELETES_PER_BATCH <= Threshold => deletesThisHour <= Threshold

\* A later unit is about to be dispatched after the check made the run sleep
\* and reset the window, with a batch size below the threshold.
C3_Witness ==
    /\ FirstAttempt
    /\ idx >= 1
    /\ gov.unit = idx /\ gov.triggered /\ gov.slept
    /\ DELETES_PER_BATCH <= Threshold

\* The successful calls whose intent list holds an intent.
OkCallsWith(intent) == { i \in Calls : IsOk(i) /\ intent \in Range(writeLog[i].writes) }

\* C4: every delete intent is in the intent list of at most one successful
\* call; when the run has ended after a completed scan and no call was
\* rejected with a status other than 429, every intent of the scan is in
\* exactly one.
C4_NoRedeleteNoDrop ==
    /\ \A p \in 1..Len(deletes) : Cardinality(OkCallsWith(deletes[p])) <= 1
    /\ (pc = "done" /\ \A i \in Calls : ~IsAbort(i)) =>
          \A p \in 1..Len(deletes) : Cardinality(OkCallsWith(deletes[p])) = 1

\* The run ended with every unit Succeeded, three intents in two or more
\* units, one call having been answered 429.
C4_Witness ==
    /\ pc = "done"
    /\ Len(deletes) = 3
    /\ Len(chunkedDeletes) >= 2
    /\ \A i \in Calls : ~IsAbort(i)
    /\ \E i \in Calls : Is429(i)

\* The final '/'-separated segment of a uri: its longest suffix without '/'.
FinalSegment(uri) ==
    LET k == CHOOSE n \in 0..Len(uri) :
                 /\ \A j \in (Len(uri) - n + 1)..Len(uri) : uri[j] # "/"
                 /\ (n = Len(uri) \/ uri[Len(uri) - n] = "/")
    IN  [j \in 1..k |-> uri[Len(uri) - k + j]]

\* One intent per record with evidence of the domain, in the records' order.
RECURSIVE ExpectedIntents(_)
ExpectedIntents(records) ==
    IF records = <<>> THEN <<>>
    ELSE (IF Evidence(Head(records).value)
          THEN <<[type |-> "com.atproto.repo.applyWrites#delete",
                  collection |-> "app.bsky.feed.post",
                  rkey |-> FinalSegment(Head(records).uri)]>>
          ELSE <<>>) \o ExpectedIntents(Tail(records))

\* C5: the first listRecords call carries no cursor and every later one the
\* cursor of the previous response; there is one call per page; a further
\* call is made only after a non-empty cursor and the scan completes only at
\* an absent or empty one; the intents then are exactly those of the matching
\* records of all pages, in page order and within-page order, each with the
\* final segment of its record's uri as rkey.
C5_Scanner ==
    /\ pc = "fetching" => request = Some(prevNext)
    /\ pc = "fetching" => fetches = batchCount + 1
    /\ pc \notin {"fetching", "fetchFailed"} => fetches = batchCount
    /\ (pc = "fetch" /\ fetches > 0) => Truthy(prevNext)
    /\ (pc = "fetching" /\ fetches > 1) => Truthy(prevNext)
    /\ ScanCompleted => ~Truthy(prevNext)
    /\ pc # "typeError" => deletes = ExpectedIntents(seen)

\* The scan completed after two pages, with intents from two records, one of
\* them with a uri without '/', and a record that did not match.
C5_Witness ==
    /\ pc = "scanned"
    /\ fetches = 2
    /\ Len(deletes) = 2
    /\ Len(seen) = 3
    /\ \E p \in 1..2 : deletes[p].rkey = <<"r", "2">>

\* C6: when an applyWrites call has been issued, the last listRecords
\* response carried an absent or empty cursor and no listRecords call has
\* been issued since the first applyWrites call; when a listRecords call has
\* failed, the run has ended and no applyWrites call has been issued.
C6_TwoPhase ==
    /\ writeLog # <<>> =>
          /\ fetches > 0
          /\ batchCount = fetches
          /\ ~Truthy(prevNext)
          /\ pc \notin {"fetch", "fetching"}
          /\ \A i \in Calls : writeLog[i].fetched = fetches
    /\ failed => pc = "fetchFailed" /\ writeLog = <<>> /\ inFlight = 0

\* The second listRecords call failed after the first page gave two intents.
C6_Witness == failed /\ fetches = 2 /\ Len(deletes) = 2

\* C8: when the completed scan holds no delete intent, the run returns at
\* once: no applyWrites call is issued, no sleep is started, the hourly limit
\* check is never made.
C8_EmptyMatchSet ==
    (ScanCompleted /\ deletes = <<>>) =>
        /\ pc \in {"scanned", "done"}
        /\ writeLog = <<>>
        /\ sleepFor = 0
        /\ gov.unit = -1
        /\ inFlight = 0

\* The run returned with no intent after scanning two pages of records.
C8_Witness == pc = "done" /\ deletes = <<>> /\ fetches = 2 /\ Len(seen) >= 2

\* C10: the first call is for the first unit; each call is for the unit of
\* the call before it when that call was answered 429, and for the next unit
\* when that call succeeded; every call carries exactly the intent list of
\* its unit.
C10_DispatchOrder ==
    /\ writeLog # <<>> => writeLog[1].unit = 0
    /\ \A i \in Calls :
          /\ writeLog[i].unit \in 0..(Len(chunkedDeletes) - 1)
          /\ writeLog[i].writes = chunkedDeletes[writeLog[i].unit + 1]
          /\ i < Len(writeLog) =>
                \/ Is429(i) /\ writeLog[i + 1].unit = writeLog[i].unit
                \/ IsOk(i) /\ writeLog[i + 1].unit = writeLog[i].unit + 1
    /\ Concat(chunkedDeletes) \in {<<>>, deletes}

\* Three units were dispatched in order, the second one twice.
C10_Witness ==
    /\ Len(writeLog) = 4
    /\ IsOk(1) /\ Is429(2) /\ IsOk(3)
    /\ writeLog[4].unit = 2

\* C12: a run configured with a batch size that is not positive is rejected
\* before it starts: no listRecords call and no applyWrites call is issued,
\* and chunked is never entered with that size.
C12_ConfigValidation ==
    DELETES_PER_BATCH <= 0 =>
        /\ fetches = 0
        /\ writeLog = <<>>
        /\ inFlight = 0
        /\ pc # "chunking"

\* A string of decimal digits and the number it denotes.
IsNumeral(s) == Len(s) > 0 /\ \A i \in 1..Len(s) : IsDigit(s[i])

RECURSIVE Pow10(_)
Pow10(k) == IF k = 0 THEN 1 ELSE 10 * Pow10(k - 1)

RECURSIVE NumeralValue(_)
NumeralValue(s) ==
    IF s = <<>> THEN 0
    ELSE DigitVal(Head(s)) * Pow10(Len(s) - 1) + NumeralValue(Tail(s))

\* The wait in seconds after a 429 with a ratelimit-reset header, received at
\* a time in milliseconds: the reset time minus the time in whole seconds when
\* the header is a number and the difference is positive, else the default.
ExpectedWait(header, atMs) ==
    IF /\ IsDefined(header)
       /\ IsNumeral(Get(header))
       /\ NumeralValue(Get(header)) - (atMs \div 1000) > 0
    THEN NumeralValue(Get(header)) - (atMs \div 1000)
    ELSE 60

\* C13: after a 429 the run sleeps W seconds and only then issues the call
\* again, W being the reset time of the header minus the time of the response
\* in whole seconds when that is a positive number, and 60 when the header is
\* absent, is no number, names the present second or the past; W > 0.
C13_WaitDuration ==
    IsDefined(rateLimited) =>
        LET at == Get(rateLimited).at
            W == ExpectedWait(Get(rateLimited).header, at)
        IN  /\ W > 0
            /\ pc \in {"backoff", "write"}
            /\ pc = "backoff" => now = at /\ sleepFor = W * 1000
            /\ pc = "write" => now >= at + W * 1000 /\ ~success

\* The call is about to be issued again after a response that came at a time
\* of no whole second and named a reset time an hour ahead.
C13_Witness ==
    /\ pc = "write"
    /\ IsDefined(rateLimited)
    /\ Get(rateLimited).at % 1000 # 0
    /\ Get(rateLimited).header = Some(ToDigits((Get(rateLimited).at \div 1000) + 3600))

\* The async function has returned or rejected.
Terminated == pc \in {"done", "fetchFailed", "typeError"}

Units == 0..(Len(chunkedDeletes) - 1)
Aborted(u) == \E i \in CallsOf(u) : IsAbort(i)

\* Every unit Succeeded and none Aborted, or exactly one unit Aborted, the
\* units before it Succeeded and none after it attempted.
Outcome ==
    \/ \A u \in Units : Succeeded(u) /\ ~Aborted(u)
    \/ \E a \in Units :
          /\ Aborted(a) /\ ~Succeeded(a)
          /\ \A u \in Units : u < a => Succeeded(u) /\ ~Aborted(u)
          /\ \A u \in Units : u > a => CallsOf(u) = {}

\* The last response was a 429: the run is in the retry loop of that unit,
\* not aborted, with no later unit attempted.
InRetryLoop ==
    (writeLog # <<>> /\ Is429(Len(writeLog))) =>
        /\ pc \in {"backoff", "write"}
        /\ idx = writeLog[Len(writeLog)].unit
        /\ ~success
        /\ \A i \in Calls : ~IsAbort(i) /\ writeLog[i].unit <= idx

\* C14: with a finite chain of cursors, every call settling, every timer
\* firing and finitely many 429 responses, the run eventually terminates, with
\* every unit Succeeded or exactly one unit Aborted; there is no ceiling on
\* retries: after any number of 429 responses to a unit the run is still in
\* the retry loop of that unit, not aborted, with no later unit attempted.
C14_Termination ==
    /\ <>Terminated
    /\ [](Terminated => Outcome)
    /\ []InRetryLoop

\* The dispatch loop is running: the window has been opened.
WindowOpen == pc \in {"loop", "quotaWait", "write", "writing", "backoff", "delay"}

WindowUnchanged ==
    hourWindowStart' = hourWindowStart /\ deletesThisHour' = deletesThisHour

\* One step of the dispatch, as the window rule allows it.
WindowRule ==
    /\ (pc = "loop" /\ idx < Len(chunkedDeletes)) =>
          LET n == Len(chunkedDeletes[idx + 1])
              elapsed == now - hourWindowStart
          IN  IF deletesThisHour + n > MAX_DELETES_PER_HOUR - SAFE_MARGIN
              THEN IF elapsed < oneHourMs
                   THEN /\ pc' = "quotaWait"
                        /\ sleepFor' = oneHourMs - elapsed
                        /\ WindowUnchanged
                   ELSE /\ pc' = "write"
                        /\ now' = now
                        /\ hourWindowStart' = now
                        /\ deletesThisHour' = 0
              ELSE /\ pc' = "write"
                   /\ WindowUnchanged
    /\ pc = "quotaWait" =>
          /\ pc' = "write"
          /\ hourWindowStart' = now'
          /\ deletesThisHour' = 0
          /\ now' - hourWindowStart >= oneHourMs
    /\ pc \notin {"loop", "quotaWait"} =>
          /\ hourWindowStart' = hourWindowStart
          /\ deletesThisHour' >= deletesThisHour

\* C15: once the window is open, it is reset exactly when the check before a
\* unit finds deletesThisHour + n > MAX_DELETES_PER_HOUR - SAFE_MARGIN; a reset
\* sets deletesThisHour = 0 and hourWindowStart = now together, at least one
\* hour after the previous hourWindowStart (the run sleeps one hour minus
\* elapsed when elapsed is less than one hour and does not sleep otherwise);
\* at every other step deletesThisHour does not decrease and hourWindowStart
\* stays, and a check that does not trigger leaves both as they are, however
\* long ago the window started.
C15_WindowReset == [][WindowOpen => WindowRule]_vars

\* A later unit is about to be dispatched after the check reset the window
\* without sleeping, more than an hour after the window had started.
C15_Witness ==
    /\ FirstAttempt
    /\ idx >= 1
    /\ gov.unit = idx /\ gov.triggered /\ ~gov.slept
    /\ hourWindowStart = now /\ deletesThisHour = 0
    /\ now - gov.prevStart > oneHourMs

\* The intents of the successful calls that completed less than an hour
\* before the i-th one did, that one included.
RECURSIVE InHourBefore(_, _)
InHourBefore(i, j) ==
    IF j = 0 THEN 0
    ELSE (IF completed[i].at - completed[j].at < oneHourMs THEN completed[j].n ELSE 0)
         + InHourBefore(i, j - 1)

\* C16: with DELETES_PER_BATCH <= MAX_DELETES_PER_HOUR - SAFE_MARGIN, whatever
\* the latencies of the calls and the waits after 429 responses, the intents
\* of the successful applyWrites calls that complete within any interval of
\* one hour number at most MAX_DELETES_PER_HOUR - SAFE_MARGIN.
C16_RollingHourBudget ==
    DELETES_PER_BATCH <= Threshold =>
        \A i \in 1..Len(completed) : InHourBefore(i, i) <= Threshold

\* The unit alone holds more intents than the threshold.
Oversized(u) == Len(chunkedDeletes[u + 1]) > Threshold

\* C17: for a unit whose size n alone exceeds MAX_DELETES_PER_HOUR -
\* SAFE_MARGIN the check is made once and triggers, and the window is reset
\* once (after one sleep, or at once when an hour has passed already): not at
\* all while the run sleeps, once from then on; every call for the unit
\* carries the whole unit, starts from deletesThisHour = 0, and, when it
\* succeeds, leaves deletesThisHour = n.
C17_OversizedUnit ==
    /\ (pc \in {"quotaWait", "write", "writing", "backoff", "delay"} /\ Oversized(idx)) =>
          /\ gov.unit = idx
          /\ gov.triggered
          /\ gov.checks = 1
          /\ gov.resets = IF pc = "quotaWait" THEN 0 ELSE 1
          /\ pc = "quotaWait" <=> (gov.slept /\ gov.resets = 0)
    /\ (FirstAttempt /\ Oversized(idx)) =>
          /\ deletesThisHour = 0
          /\ hourWindowStart = now
          /\ now - gov.prevStart >= oneHourMs
    /\ \A i \in Calls :
          Oversized(writeLog[i].unit) =>
             /\ writeLog[i].writes = chunkedDeletes[writeLog[i].unit + 1]
             /\ writeLog[i].usedBefore = 0
             /\ IsOk(i) => writeLog[i].usedAfter = Len(writeLog[i].writes)
             /\ (IsOk(i) /\ i = Len(writeLog) /\ pc = "delay") =>
                    deletesThisHour = Len(writeLog[i].writes)

\* After an oversized unit of two intents, for which the run slept, a second
\* oversized unit found the hour elapsed, had the window reset without a
\* sleep, and succeeded.
C17_Witness ==
    /\ pc = "delay"
    /\ idx = 1
    /\ Oversized(0) /\ Len(chunkedDeletes[1]) = 2
    /\ Oversized(1)
    /\ ~gov.slept /\ gov.resets = 1
    /\ IsOk(Len(writeLog))
    /\ deletesThisHour = Len(chunkedDeletes[2])

\* The run is between the hourly limit check of a unit and the end of its
\* retry loop.
InUnit == pc \in {"write", "writing", "backoff"}

\* A step inside the retry loop of a unit, or the step that aborts it.
RetryStep == InUnit /\ (InUnit' \/ pc' = "done")

\* C18: the hourly limit check is made exactly once per unit, before the
\* unit's first call, and not again before a retry; no step of the retry loop
\* (a call issued, a 429 received, a wait elapsed) and no abort changes
\* hourWindowStart or deletesThisHour.
C18_GovernorOncePerUnit ==
    /\ []((InUnit \/ pc = "delay") => (gov.unit = idx /\ gov.checks = 1))
    /\ [](\A i \in Calls : writeLog[i].unit <= gov.unit)
    /\ [][RetryStep => (WindowUnchanged /\ gov' = gov)]_vars

\* A unit for which the check triggered is about to be called a third time,
\* after two 429 responses.
C18_Witness ==
    /\ pc = "write"
    /\ idx >= 1
    /\ gov.triggered
    /\ Cardinality(CallsOf(idx)) = 2
    /\ \A i \in CallsOf(idx) : Is429(i)

\* C19: every listRecords and applyWrites call is started by the limiter; at
\* most one call is in flight at any time, so the limiter's cap of 3 is never
\* reached: a call is in flight exactly while the run awaits it, and none is
\* while the run sleeps (the wait for the hour, the wait after a 429, the
\* delay between batches).
C19_SequentialCalls ==
    /\ inFlight \in {0, 1}
    /\ inFlight < concurrency
    /\ inFlight = 1 <=> pc \in {"fetching", "writing"}
    /\ pc \in {"quotaWait", "backoff", "delay"} => inFlight = 0
    /\ IsDefined(request) <=> pc = "fetching"
    /\ \A i \in Calls :
          writeLog[i].result = "pending" <=> (pc = "writing" /\ i = Len(writeLog))

\* The third applyWrites call is in flight, after a 429 and its wait and a
\* success and its delay.
C19_Witness ==
    /\ pc = "writing"
    /\ inFlight = 1
    /\ Len(writeLog) = 3
    /\ Is429(1) /\ IsOk(2)

====
